---- MODULE Spec2Model ----
(***************************************************************************)
(* Model of the deduplication and merge engine of eCharm:                  *)
(* charging_stations_pipelines/pipelines/_merger.py (StationMerger) over   *)
(* the stations table of charging_stations_pipelines/models/station.py.    *)
(*                                                                         *)
(* Text values (source_id, data_source) are sequences of tokens, so that   *)
(* ",".join and the MERGED_ prefix are real concatenations that can be     *)
(* split again.  Nullable values are options: <<>> is NULL/None and <<v>>  *)
(* is the value v.  Points lie on a line, in metres.                       *)
(***************************************************************************)
EXTENDS Integers, Sequences, FiniteSets, TLC

VARIABLES
    stations,               \* the committed rows of table "stations", row id = index
    merged_station_source,  \* the committed rows of table "merged_station_source"
    mergers,                \* the StationMerger objects and their run() frames
    constructed,            \* number of StationMerger(...) calls made so far
    failures,               \* number of commits the storage has refused so far
    cleanRuns               \* history: configurations whose run() ended with no failed commit

vars == <<stations, merged_station_source, mergers, constructed, failures, cleanRuns>>

----------------------------------------------------------------------------
(* Bounds of the model *)

NumStations == 6      \* original stations imported before the first run
NumStationsB == 3     \* original stations of the second dataset
MaxConstructed == 2   \* StationMerger(...) calls in one behaviour
MaxFailures == 1      \* commits the storage refuses in one behaviour

----------------------------------------------------------------------------
(* Program constants *)

radius_m == 100                \* run(): radius of the duplicate search
test_radius_m == 5000          \* run(): radius of the is_test seed area
munich_center_coordinates == 0 \* run(): centre of the is_test seed area

Null == <<>>
Some(v) == <<v>>

IS_DUPLICATE == Some("is_duplicate")

\* country_code_to_gov_source of __init__; "" is Italy's empty choice
country_code_to_gov_source ==
    [c \in {"DE", "FR", "GB", "IT"} |->
        CASE c = "DE" -> "BNA"
          [] c = "FR" -> "FRGOV"
          [] c = "GB" -> "GBGOV"
          [] c = "IT" -> ""]

\* the country codes passed to the constructor; "AT" is not known to the merger
CountryArgs == {"DE", "FR", "AT"}

\* the merger processes that may be alive at once
Mergers == {"p", "q"}

----------------------------------------------------------------------------
(* The imported stations: rows written by the source pipelines before any  *)
(* merge (is_merged = false by the column default, merge_status NULL).     *)

Catalogue ==
    << [country_code |-> "DE", data_source |-> "BNA",   point |-> 0,    operator |-> Some("EnBW"),   source_id |-> <<"s1">>],
       [country_code |-> "DE", data_source |-> "OCM",   point |-> 40,   operator |-> Some("Ionity"), source_id |-> <<"s2">>],
       [country_code |-> "DE", data_source |-> "OSM",   point |-> 80,   operator |-> Some("Shell"),  source_id |-> <<"s3">>],
       [country_code |-> "FR", data_source |-> "OCM",   point |-> 30,   operator |-> Some("Total"),  source_id |-> <<"s4">>],
       [country_code |-> "FR", data_source |-> "OSM",   point |-> 90,   operator |-> Some("Izivia"), source_id |-> <<"s5">>],
       [country_code |-> "AT", data_source |-> "AT_ECONTROL", point |-> 50, operator |-> Some("Wien"), source_id |-> <<"s6">>],
       [country_code |-> "DE", data_source |-> "OSM",   point |-> 5060, operator |-> Null,           source_id |-> <<"s7">>],
       [country_code |-> "DE", data_source |-> "OCM",   point |-> 4980, operator |-> Some("Aral"),   source_id |-> <<"s8">>],
       [country_code |-> "FR", data_source |-> "FRGOV", point |-> 60,   operator |-> Null,           source_id |-> <<"s9">>] >>

\* A second dataset: two government stations without operator 40 m apart in the
\* centre of Munich, and stations near the rim of the is_test area.
CatalogueB ==
    << [country_code |-> "DE", data_source |-> "BNA",   point |-> 0,    operator |-> Null,           source_id |-> <<"t1">>],
       [country_code |-> "DE", data_source |-> "BNA",   point |-> 40,   operator |-> Null,           source_id |-> <<"t2">>],
       [country_code |-> "DE", data_source |-> "OSM",   point |-> 5050, operator |-> Some("Aral"),   source_id |-> <<"t3">>],
       [country_code |-> "DE", data_source |-> "OCM",   point |-> 4990, operator |-> Null,           source_id |-> <<"t4">>],
       [country_code |-> "DE", data_source |-> "OSM",   point |-> 100,  operator |-> Null,           source_id |-> <<"t5">>] >>

\* the datasets a behaviour may start from
Datasets == {SubSeq(Catalogue, 1, NumStations), SubSeq(CatalogueB, 1, NumStationsB)}

\* one row of table stations (models/station.py, class Station)
Station(c) ==
    [country_code |-> c.country_code, data_source |-> <<c.data_source>>,
     point |-> c.point, operator |-> c.operator, source_id |-> c.source_id,
     is_merged |-> FALSE, merge_status |-> Null]

NoMerger ==
    [pc |-> "none", arg |-> "", country_code |-> "", gov_source |-> "",
     is_test |-> FALSE, gdf |-> <<>>, idx |-> 0, error_logged |-> FALSE]

Init ==
    /\ \E dataset \in Datasets :
          stations = [i \in 1..Len(dataset) |-> Station(dataset[i])]
    /\ merged_station_source = {}
    /\ mergers = [m \in Mergers |-> NoMerger]
    /\ constructed = 0
    /\ failures = 0
    /\ cleanRuns = {}

----------------------------------------------------------------------------
(* StationMerger.__init__ *)

\* mutant of InitMerger: an unknown code falls back to the empty government source
InitMerger_unchecked(country_code, is_test) ==
    [NoMerger EXCEPT
        !.pc = "ready",
        !.arg = country_code,
        !.country_code = IF is_test THEN "DE" ELSE country_code,
        !.gov_source = IF country_code \in DOMAIN country_code_to_gov_source
                       THEN country_code_to_gov_source[country_code] ELSE "",
        !.is_test = is_test]

\* the object __init__ leaves behind: none when it raises
InitMerger(country_code, is_test) ==
    IF country_code \notin DOMAIN country_code_to_gov_source
    THEN [NoMerger EXCEPT !.pc = "init_failed", !.arg = country_code, !.is_test = is_test]
    ELSE [NoMerger EXCEPT
            !.pc = "ready",
            !.arg = country_code,
            !.country_code = IF is_test THEN "DE" ELSE country_code,
            !.gov_source = country_code_to_gov_source[country_code],
            !.is_test = is_test]

Construct(m, country_code, is_test) ==
    /\ mergers[m].pc \in {"none", "init_failed", "done", "aborted"}
    /\ constructed < MaxConstructed
    /\ mergers' = [mergers EXCEPT ![m] = InitMerger(country_code, is_test)]
    /\ constructed' = constructed + 1
    /\ UNCHANGED <<stations, merged_station_source, failures, cleanRuns>>

----------------------------------------------------------------------------
(* Text and sequence helpers (str.join, Series.unique, Series.tolist) *)

RECURSIVE join(_, _)
\* sep.join(parts): parts is a sequence of texts, the result one text
join(sep, parts) ==
    IF parts = <<>> THEN <<>>
    ELSE IF Len(parts) = 1 THEN parts[1]
    ELSE parts[1] \o <<sep>> \o join(sep, Tail(parts))

RECURSIVE unique(_)
\* Series.unique(): the distinct values in order of first appearance
unique(values) ==
    IF values = <<>> THEN <<>>
    ELSE LET front == unique(SubSeq(values, 1, Len(values) - 1))
             last == values[Len(values)]
         IN IF \E i \in 1..Len(front) : front[i] = last THEN front ELSE Append(front, last)

\* DataFrame.dropna() on one column: the non-null values, in row order
RECURSIVE dropna(_)
dropna(values) ==
    IF values = <<>> THEN <<>>
    ELSE IF Head(values) = Null THEN dropna(Tail(values))
    ELSE <<Head(values)[1]>> \o dropna(Tail(values))

RECURSIVE sort_values_descending(_)
\* mutant of sort_values: the seeds come in descending order
sort_values_descending(ids) ==
    IF ids = {} THEN <<>>
    ELSE LET most == CHOOSE i \in ids : \A j \in ids : i >= j
         IN <<most>> \o sort_values_descending(ids \ {most})

RECURSIVE sort_values(_)
\* ascending sequence of a set of station ids (gdf.sort_values(by=['station_id']))
sort_values(ids) ==
    IF ids = {} THEN <<>>
    ELSE LET least == CHOOSE i \in ids : \A j \in ids : i <= j
         IN <<least>> \o sort_values(ids \ {least})

\* every sequence without repetition over a subset of S
Arrangements(S) ==
    UNION {{q \in [1..n -> S] : \A i, j \in 1..n : q[i] = q[j] => i = j} :
           n \in 0..Cardinality(S)}

----------------------------------------------------------------------------
(* Geometry and the storage layer *)

\* ST_DWithin on a line: distance at most radius
ST_Dwithin(p, q, radius) == (IF p >= q THEN p - q ELSE q - p) <= radius

\* shapely Point.wkt
wkt(p) == <<"POINT", p>>

\* the Geography column parsing the WKT text it is given
ST_PointFromText(text) == text[2]

\* UNIQUE on stations.source_id: an INSERT of row fails when the value exists
unique_violation(db, row) ==
    \E i \in 1..Len(db) : db[i].source_id = row.source_id

\* mutant of update_merge_status: only the first id of the list is marked
update_merge_status_first_only(db, station_ids) ==
    [i \in 1..Len(db) |->
        IF station_ids # <<>> /\ station_ids[1] = i
        THEN [db[i] EXCEPT !.merge_status = IS_DUPLICATE]
        ELSE db[i]]

\* session.query(Station).filter(Station.id.in_(station_ids)).update({merge_status: "is_duplicate"})
update_merge_status(db, station_ids) ==
    [i \in 1..Len(db) |->
        IF \E k \in 1..Len(station_ids) : station_ids[k] = i
        THEN [db[i] EXCEPT !.merge_status = IS_DUPLICATE]
        ELSE db[i]]

\* mutant of add: the merged station is never added to the session
add_forgotten(db, merged_station) == db

\* session.add(merged_station): the row as the INSERT stores it
add(db, merged_station) ==
    Append(db, [merged_station EXCEPT !.point = ST_PointFromText(merged_station.point)])

\* mutant of write_session: the rollback undoes the INSERT but not the UPDATE
write_session_keeps_update(db, pending, commit_ok) ==
    IF commit_ok THEN pending ELSE SubSeq(pending, 1, Len(db))

\* write_session: commit the pending transaction, or log the error and roll back
write_session(db, pending, commit_ok) ==
    IF commit_ok THEN pending ELSE db

----------------------------------------------------------------------------
(* StationMerger.run: the seed query *)

\* mutant of get_stations_list: merged records are read as seeds too
get_stations_list_with_merged(db, merger) ==
    IF merger.is_test
    THEN {i \in 1..Len(db) :
            ST_Dwithin(db[i].point, munich_center_coordinates, test_radius_m)}
    ELSE {i \in 1..Len(db) : db[i].country_code = merger.country_code}

get_stations_list(db, merger) ==
    IF merger.is_test
    THEN {i \in 1..Len(db) :
            /\ ST_Dwithin(db[i].point, munich_center_coordinates, test_radius_m)
            /\ ~db[i].is_merged}
    ELSE {i \in 1..Len(db) :
            /\ ~db[i].is_merged
            /\ db[i].country_code = merger.country_code}

\* gdf: (station_id, point) rows sorted by station_id
read_gdf(db, merger) ==
    LET ids == sort_values(get_stations_list(db, merger))
    IN [k \in 1..Len(ids) |-> [station_id |-> ids[k], point |-> db[ids[k]].point]]

----------------------------------------------------------------------------
(* StationMerger.find_duplicates *)

\* mutant of nearby_stations: stations already marked is_duplicate are returned too
nearby_stations_ignoring_status(db, merger, center_coordinates, radius) ==
    {i \in 1..Len(db) :
        /\ ST_Dwithin(db[i].point, center_coordinates, radius)
        /\ ~db[i].is_merged
        /\ db[i].country_code = merger.country_code}

\* mutant of nearby_stations: the radius condition is missing
nearby_stations_any_distance(db, merger, center_coordinates, radius) ==
    {i \in 1..Len(db) :
        /\ ~db[i].is_merged
        /\ db[i].merge_status # IS_DUPLICATE
        /\ db[i].country_code = merger.country_code}

\* mutant of nearby_stations: the country filter is missing
nearby_stations_any_country(db, merger, center_coordinates, radius) ==
    {i \in 1..Len(db) :
        /\ ST_Dwithin(db[i].point, center_coordinates, radius)
        /\ ~db[i].is_merged
        /\ db[i].merge_status # IS_DUPLICATE}

\* find_surrounding_stations_sql
nearby_stations(db, merger, center_coordinates, radius) ==
    {i \in 1..Len(db) :
        /\ ST_Dwithin(db[i].point, center_coordinates, radius)
        /\ ~db[i].is_merged
        /\ db[i].merge_status # IS_DUPLICATE
        /\ db[i].country_code = merger.country_code}

\* attribute_match_thresholds_duplicates: the candidates it flags is_duplicate, in the
\* row order of the query (which has no ORDER BY)
attribute_match_thresholds_duplicates(duplicate_candidates) ==
    Arrangements(duplicate_candidates)

\* mutant of find_duplicates: the seed's own row is taken from the table, whether or
\* not the radius query returned it
find_duplicates_seed_always(db, merger, current_station_id, current_station_coordinates, radius) ==
    LET nearby == nearby_stations(db, merger, current_station_coordinates, radius)
        current_station_full == <<current_station_id>>
    IN IF nearby = {}
       THEN {[duplicates |-> <<>>, current_station_full |-> <<>>]}
       ELSE IF Cardinality(nearby) >= 2
       THEN {[duplicates |-> d, current_station_full |-> current_station_full] :
                d \in attribute_match_thresholds_duplicates(nearby \ {current_station_id})}
       ELSE {[duplicates |-> <<>>, current_station_full |-> current_station_full]}

\* the possible results (duplicates, current_station_full), as sequences of station ids
find_duplicates(db, merger, current_station_id, current_station_coordinates, radius) ==
    LET nearby == nearby_stations(db, merger, current_station_coordinates, radius)
        current_station_full ==
            IF current_station_id \in nearby THEN <<current_station_id>> ELSE <<>>
    IN IF nearby = {}
       THEN {[duplicates |-> <<>>, current_station_full |-> <<>>]}
       ELSE IF Cardinality(nearby) >= 2 /\ current_station_full # <<>>
       THEN {[duplicates |-> d, current_station_full |-> current_station_full] :
                d \in attribute_match_thresholds_duplicates(nearby \ {current_station_id})}
       ELSE {[duplicates |-> <<>>, current_station_full |-> current_station_full]}

----------------------------------------------------------------------------
(* StationMerger._merge_duplicates *)

\* get_attribute_by_priority: the first non-null value of the column among the rows of
\* the first source of the priority list that has one; None when there is none
RECURSIVE get_attribute_by_priority(_, _, _)
get_attribute_by_priority(rows, column_name, priority_list) ==
    IF priority_list = <<>> THEN Null
    ELSE LET of_source == SelectSeq(rows, LAMBDA r : r.data_source = <<Head(priority_list)>>)
             stations_by_source ==
                dropna([k \in 1..Len(of_source) |->
                          IF column_name = "point" THEN Some(of_source[k].point)
                          ELSE of_source[k].operator])
         IN IF Len(stations_by_source) > 0
            THEN Some(stations_by_source[1])
            ELSE get_attribute_by_priority(rows, column_name, Tail(priority_list))

\* mutant of operator_priority_list: the geometry order is used for the operator
operator_priority_list_osm_first(merger) == <<"OSM", "OCM", merger.gov_source>>

operator_priority_list(merger) == <<merger.gov_source, "OCM", "OSM">>

\* mutant of point_priority_list: the operator's order is used for the point
point_priority_list_gov_first(merger) == <<merger.gov_source, "OCM", "OSM">>

point_priority_list(merger) == <<"OSM", "OCM", merger.gov_source>>

\* data_source of a multi-member cluster
merged_data_source(rows) ==
    join(",", unique([k \in 1..Len(rows) |-> rows[k].data_source]))

\* mutant of merged_source_id: the first row of a multi-member cluster is left out
merged_source_id_drops_first(rows) ==
    <<"MERGED_">> \o join(",", [k \in 1..Len(IF Len(rows) >= 2 THEN Tail(rows) ELSE rows) |->
                                  (IF Len(rows) >= 2 THEN Tail(rows) ELSE rows)[k].source_id])

\* source_id of the merged station
merged_source_id(rows) ==
    <<"MERGED_">> \o join(",", [k \in 1..Len(rows) |-> rows[k].source_id])

\* mutant of merged_from_series: the operator of the seed is not carried over
merged_from_series_without_operator(merger, row) ==
    [country_code |-> merger.country_code, is_merged |-> TRUE,
     merge_status |-> Null,
     data_source |-> row.data_source,
     point |-> wkt(row.point),
     operator |-> Null,
     source_id |-> merged_source_id(<<row>>)]

\* the merged station of a cluster that is the seed alone (the pd.Series branch)
merged_from_series(merger, row) ==
    [country_code |-> merger.country_code, is_merged |-> TRUE,
     merge_status |-> Null,
     data_source |-> row.data_source,
     point |-> wkt(row.point),
     operator |-> row.operator,
     source_id |-> merged_source_id(<<row>>)]

\* point of a multi-member cluster: get_attribute_by_priority('point', ...)
merged_point(merger, rows) ==
    get_attribute_by_priority(rows, "point", point_priority_list(merger))

\* mutant of merged_operator: an empty text stands in for a missing operator
merged_operator_defaulted(merger, rows) ==
    LET operator == get_attribute_by_priority(rows, "operator", operator_priority_list(merger))
    IN IF operator = Null THEN Some("") ELSE operator

\* operator of a multi-member cluster: get_attribute_by_priority('operator')
merged_operator(merger, rows) ==
    get_attribute_by_priority(rows, "operator", operator_priority_list(merger))

\* the merged Station, or raised when point.wkt is taken of None
_merge_duplicates(merger, rows) ==
    LET blank == [country_code |-> merger.country_code, is_merged |-> TRUE,
                  merge_status |-> Null]
    IN IF Len(rows) = 1
       THEN [raised |-> FALSE, station |-> merged_from_series(merger, rows[1])]
       ELSE LET point == merged_point(merger, rows)
                operator == merged_operator(merger, rows)
            IN IF point = Null
               THEN [raised |-> TRUE, station |-> blank]
               ELSE [raised |-> FALSE,
                     station |-> [country_code |-> merger.country_code, is_merged |-> TRUE,
                                  merge_status |-> Null,
                                  data_source |-> merged_data_source(rows),
                                  point |-> wkt(point[1]),
                                  operator |-> IF operator = Null THEN Null ELSE Some(operator[1]),
                                  source_id |-> merged_source_id(rows)]]

----------------------------------------------------------------------------
(* StationMerger.run *)

\* run() returned: the loop is over; a run without a failed commit is remembered
finished(merger) == merger.idx > Len(merger.gdf)

\* the frame of run() (gdf, idx) is gone once run() has returned
after_loop(merger) ==
    IF finished(merger)
    THEN [merger EXCEPT !.pc = "done", !.gdf = <<>>, !.idx = 0]
    ELSE merger

remember(merger) ==
    IF merger.pc = "done" /\ ~merger.error_logged
    THEN cleanRuns \cup {<<merger.country_code, merger.is_test>>}
    ELSE cleanRuns

\* Two runs work on the table at once only for different country partitions
\* (each run is one process; the partitions are those of self.country_code).
partition_free(m) ==
    \A o \in Mergers \ {m} :
        mergers[o].pc = "running" => mergers[o].country_code # mergers[m].country_code

\* run() up to the loop: the seed list is read and sorted
RunStart(m) ==
    /\ mergers[m].pc = "ready"
    /\ partition_free(m)
    /\ LET started == after_loop([mergers[m] EXCEPT
                            !.pc = "running",
                            !.gdf = read_gdf(stations, mergers[m]),
                            !.idx = 1])
       IN /\ mergers' = [mergers EXCEPT ![m] = started]
          /\ cleanRuns' = remember(started)
    /\ UNCHANGED <<stations, merged_station_source, constructed, failures>>

\* mutant of after_write: the exception of a failed commit leaves run()
after_write_raising(merger, commit_ok) ==
    IF commit_ok
    THEN after_loop([merger EXCEPT !.idx = @ + 1])
    ELSE [merger EXCEPT !.pc = "aborted", !.gdf = <<>>, !.idx = 0, !.error_logged = TRUE]

\* the frame after write_session returned: a failed commit was logged and swallowed,
\* and the loop goes on with the next seed
after_write(merger, commit_ok) ==
    after_loop([[merger EXCEPT !.error_logged = @ \/ ~commit_ok] EXCEPT !.idx = @ + 1])

\* the rows of the table for a sequence of station ids
rows_of(db, ids) == [k \in 1..Len(ids) |-> db[ids[k]]]

\* One iteration of the loop of run() for a given result of find_duplicates and
\* a given behaviour of the storage at commit: the new table and the new frame.
iteration(db, merger, found, storage_fails) ==
    LET current_station == merger.gdf[merger.idx]
        stations_to_merge ==
            IF found.duplicates # <<>>
            THEN found.duplicates \o found.current_station_full
            ELSE found.current_station_full
        station_ids ==
            IF found.duplicates # <<>>
            THEN stations_to_merge
            ELSE <<current_station.station_id>>
    IN IF stations_to_merge = <<>>
       THEN [db |-> db, failed |-> FALSE,
             merger |-> after_loop([merger EXCEPT !.idx = @ + 1])]
       ELSE LET updated == update_merge_status(db, station_ids)
                merged == _merge_duplicates(merger, rows_of(db, stations_to_merge))
            IN IF merged.raised
               THEN \* the exception leaves run(); the open transaction is never committed
                    [db |-> db, failed |-> FALSE,
                     merger |-> [merger EXCEPT !.pc = "aborted", !.gdf = <<>>, !.idx = 0]]
               ELSE LET commit_ok == ~storage_fails /\ ~unique_violation(updated, merged.station)
                    IN [db |-> write_session(db, add(updated, merged.station), commit_ok),
                        failed |-> ~commit_ok,
                        merger |-> after_write(merger, commit_ok)]

Step(m, storage_fails) ==
    /\ mergers[m].pc = "running"
    /\ ~finished(mergers[m])
    /\ storage_fails => failures < MaxFailures
    /\ \E found \in find_duplicates(stations, mergers[m],
                                    mergers[m].gdf[mergers[m].idx].station_id,
                                    mergers[m].gdf[mergers[m].idx].point, radius_m) :
         LET result == iteration(stations, mergers[m], found, storage_fails)
         IN /\ stations' = result.db
            /\ mergers' = [mergers EXCEPT ![m] = result.merger]
            /\ cleanRuns' = remember(result.merger)
            /\ failures' = IF result.failed THEN failures + 1 ELSE failures
    /\ UNCHANGED <<merged_station_source, constructed>>

Next ==
    \E m \in Mergers :
        \/ \E country_code \in CountryArgs, is_test \in BOOLEAN : Construct(m, country_code, is_test)
        \/ RunStart(m)
        \/ \E storage_fails \in BOOLEAN : Step(m, storage_fails)


----------------------------------------------------------------------------
(* Reading the table: originals, merged records and their member lists *)

RECURSIVE split(_, _)
\* text.split(sep): the texts between the separators
split(text, sep) ==
    IF \A k \in 1..Len(text) : text[k] # sep THEN <<text>>
    ELSE LET k == CHOOSE i \in 1..Len(text) :
                     text[i] = sep /\ \A j \in 1..(i - 1) : text[j] # sep
         IN <<SubSeq(text, 1, k - 1)>> \o split(SubSeq(text, k + 1, Len(text)), sep)

Originals(db) == {i \in 1..Len(db) : ~db[i].is_merged}
MergedRecords(db) == {i \in 1..Len(db) : db[i].is_merged}

\* the source-identifier list of a merged record: its source_id without MERGED_
MemberList(row) == split(Tail(row.source_id), ",")
MemberSet(row) == {MemberList(row)[k] : k \in 1..Len(MemberList(row))}

\* the merged records of db that list the source identifier of original i
RecordsListing(db, i) == {j \in MergedRecords(db) : db[i].source_id \in MemberSet(db[j])}

\* the original stations a merged record lists, in the order of its list
MemberStations(db, row) ==
    [k \in 1..Len(MemberList(row)) |->
        CHOOSE i \in Originals(db) : db[i].source_id = MemberList(row)[k]]

\* merger m took a step of its run (the frame of run() moved)
Stepped(m) == mergers[m].pc = "running" /\ mergers'[m] # mergers[m]

----------------------------------------------------------------------------
(* Claims *)

\* C1: never merged twice - the source identifier of every original station is
\* listed by at most one committed merged record, whatever runs and failed
\* commits came before.
C1_NeverMergedTwice ==
    \A i \in Originals(stations) : Cardinality(RecordsListing(stations, i)) <= 1

\* C1 witness: after a refused commit and a second construction, the three German
\* originals are all listed, one of them in a record of several members.
C1_Witness ==
    /\ failures >= 1
    /\ constructed = 2
    /\ \A i \in {1, 2, 3} : Cardinality(RecordsListing(stations, i)) = 1
    /\ \E j \in MergedRecords(stations) : Len(MemberList(stations[j])) >= 2

\* C2: an original station is is_duplicate exactly when a committed merged record
\* lists its source identifier, and no step takes is_duplicate away again.
C2_StatusMatchesRecords ==
    \A i \in Originals(stations) :
        stations[i].merge_status = IS_DUPLICATE <=> RecordsListing(stations, i) # {}

C2_NeverReversed ==
    \A i \in 1..Len(stations) :
        stations[i].merge_status = IS_DUPLICATE =>
            /\ i <= Len(stations')
            /\ stations'[i].merge_status = IS_DUPLICATE

\* C2: is_duplicate exactly for the stations a committed merged record lists, in
\* every committed state, and never reversed by any step.
C2_DuplicateIffAbsorbed == [](C2_StatusMatchesRecords) /\ [][C2_NeverReversed]_vars

\* C2 witness: a run has absorbed station 2 into a record while station 3 is still
\* unabsorbed and listed nowhere, and a later construction has happened.
C2_Witness ==
    /\ constructed = 2
    /\ stations[2].merge_status = IS_DUPLICATE
    /\ RecordsListing(stations, 2) # {}
    /\ stations[3].merge_status = Null
    /\ RecordsListing(stations, 3) = {}

\* the table after one committed cluster: one merged record more, exactly the
\* stations it lists newly marked is_duplicate, nothing else touched
CommittedCluster(old, new) ==
    /\ Len(new) = Len(old) + 1
    /\ new[Len(new)].is_merged
    /\ LET members == {i \in Originals(old) : old[i].source_id \in MemberSet(new[Len(new)])}
       IN /\ members # {}
          /\ Cardinality(members) = Cardinality(MemberSet(new[Len(new)]))
          /\ \A i \in 1..Len(old) :
                new[i] = IF i \in members
                         THEN [old[i] EXCEPT !.merge_status = IS_DUPLICATE]
                         ELSE old[i]
          /\ \A i \in members : old[i].merge_status # IS_DUPLICATE

\* C3: every step of run is all-or-nothing on the committed table - either the
\* merged record is there and all the stations it lists are marked, or the table
\* is as it was.
C3_AllOrNothing ==
    [][stations' = stations \/ CommittedCluster(stations, stations')]_vars

\* C3 witness: one cluster of several members is committed and one commit was
\* refused and left no trace.
C3_Witness ==
    /\ failures >= 1
    /\ \E j \in MergedRecords(stations) :
          /\ Len(MemberList(stations[j])) >= 2
          /\ \A k \in 1..Len(MemberList(stations[j])) :
                stations[MemberStations(stations, stations[j])[k]].merge_status = IS_DUPLICATE
    /\ \E i \in Originals(stations) :
          stations[i].merge_status = Null /\ RecordsListing(stations, i) = {}

\* C4: a refused commit is rolled back - the table, and with it every cluster
\* committed before, is unchanged - and the run goes on with the next seed (or
\* returns after the last one) instead of aborting.
C4_FailureIsolated ==
    [][failures' = failures + 1 =>
         /\ stations' = stations
         /\ \A m \in Mergers :
               Stepped(m) =>
                  \/ /\ mergers'[m].pc = "running"
                     /\ mergers'[m].idx = mergers[m].idx + 1
                     /\ mergers'[m].gdf = mergers[m].gdf
                  \/ /\ mergers'[m].pc = "done"
                     /\ mergers[m].idx = Len(mergers[m].gdf)]_vars

\* C4 witness: in the first run the cluster of seed 1 is committed, the commit of
\* seed 2 was refused, and the run stands at seed 3.
C4_Witness ==
    /\ constructed = 1
    /\ failures = 1
    /\ \E m \in Mergers :
          /\ mergers[m].pc = "running"
          /\ mergers[m].error_logged
          /\ mergers[m].idx = 3
    /\ stations[1].merge_status = IS_DUPLICATE
    /\ RecordsListing(stations, 1) # {}
    /\ stations[2].merge_status = Null

\* C5: every is_duplicate station has its source identifier in exactly one
\* MergedStationSource row set - each committed cluster writes one row per member.
C5_ExactlyOneSourceRow ==
    \A i \in Originals(stations) :
        stations[i].merge_status = IS_DUPLICATE =>
            Cardinality({row \in merged_station_source :
                            row.duplicate_source_id = stations[i].source_id}) = 1

\* C6: once a run of a configuration has returned with every commit accepted, no
\* step of a later run of that configuration changes the table.
C6_Idempotent ==
    [][\A m \in Mergers :
          (Stepped(m) /\ <<mergers[m].country_code, mergers[m].is_test>> \in cleanRuns)
             => stations' = stations]_vars

\* C6 witness: the German partition was merged by a run without failure, one
\* cluster having several members, and a second run over it is past its first seed.
C6_Witness ==
    /\ <<"DE", FALSE>> \in cleanRuns
    /\ \E j \in MergedRecords(stations) : Len(MemberList(stations[j])) >= 2
    /\ \E m \in Mergers :
          /\ mergers[m].pc = "running"
          /\ mergers[m].country_code = "DE"
          /\ ~mergers[m].is_test
          /\ mergers[m].idx >= 2

\* C7: a step of a run for country C changes only stations of country C, lists
\* only such stations in the record it inserts and gives that record country C;
\* so a station is only ever listed by records of its own country.
C7_StepStaysInCountry ==
    \A m \in Mergers :
        Stepped(m) =>
            /\ \A i \in 1..Len(stations) :
                  stations'[i] # stations[i] => stations[i].country_code = mergers[m].country_code
            /\ \A j \in (Len(stations) + 1)..Len(stations') :
                  /\ stations'[j].country_code = mergers[m].country_code
                  /\ \A i \in Originals(stations) :
                        stations[i].source_id \in MemberSet(stations'[j])
                           => stations[i].country_code = mergers[m].country_code

C7_ListedInOwnCountry ==
    \A i \in Originals(stations) :
        \A j \in RecordsListing(stations, i) :
            stations[j].country_code = stations[i].country_code

\* C7: runs stay inside their country partition, in every step and in every
\* committed state.
C7_CountryPartition == [](C7_ListedInOwnCountry) /\ [][C7_StepStaysInCountry]_vars

\* C7 witness: a German and a French run are under way at once, each past a seed,
\* and each country has a committed merged record.
C7_Witness ==
    /\ \E m, o \in Mergers :
          /\ mergers[m].pc = "running" /\ mergers[m].country_code = "DE" /\ mergers[m].idx >= 2
          /\ mergers[o].pc = "running" /\ mergers[o].country_code = "FR" /\ mergers[o].idx >= 2
    /\ \E j \in MergedRecords(stations) : stations[j].country_code = "DE"
    /\ \E j \in MergedRecords(stations) : stations[j].country_code = "FR"

\* C8: a constructor call with an unknown country code raises - no merger exists
\* afterwards, so run cannot start - and it changes no stored row.
C8_NoMergerForUnknownCode ==
    \A m \in Mergers :
        mergers[m].pc # "none" =>
            (mergers[m].arg \notin DOMAIN country_code_to_gov_source
                <=> mergers[m].pc = "init_failed")

C8_RaiseTouchesNothing ==
    \A m \in Mergers :
        /\ (mergers'[m].pc = "init_failed" /\ mergers'[m] # mergers[m]) =>
              /\ stations' = stations
              /\ merged_station_source' = merged_station_source
        /\ mergers[m].pc = "init_failed" => mergers'[m].pc \in {"init_failed", "ready"}

\* C8: an unknown country code leaves no merger to run and no row changed.
C8_UnknownCountryRejected == [](C8_NoMergerForUnknownCode) /\ [][C8_RaiseTouchesNothing]_vars

\* C8 witness: the constructor was called with "AT" and raised, after a run had
\* merged station 1; the Austrian station is untouched.
C8_Witness ==
    /\ \E m \in Mergers : mergers[m].pc = "init_failed" /\ mergers[m].arg = "AT"
    /\ stations[1].merge_status = IS_DUPLICATE
    /\ \E i \in Originals(stations) :
          stations[i].country_code = "AT" /\ stations[i].merge_status = Null

\* the operator the priority rule of the claim asks for: a government member's
\* when there is one, otherwise an OCM member's, otherwise an OSM member's
OperatorsOf(rows, source) ==
    {rows[k].operator : k \in {k \in 1..Len(rows) : rows[k].data_source = <<source>>}}

ExpectedOperators(rows, gov_source) ==
    IF OperatorsOf(rows, gov_source) # {} THEN OperatorsOf(rows, gov_source)
    ELSE IF OperatorsOf(rows, "OCM") # {} THEN OperatorsOf(rows, "OCM")
    ELSE OperatorsOf(rows, "OSM")

\* members from the government source, OCM and OSM only, each with an operator,
\* no two operators alike
DistinctOperators(rows, gov_source) ==
    /\ \A k \in 1..Len(rows) :
          /\ rows[k].data_source \in {<<gov_source>>, <<"OCM">>, <<"OSM">>}
          /\ rows[k].operator # Null
    /\ \A k, l \in 1..Len(rows) : rows[k].operator = rows[l].operator => k = l

\* C9: the record a step inserts for a cluster of several members, all from the
\* merger's government source, OCM and OSM with pairwise different operators,
\* has the operator of a government member if there is one, else of an OCM
\* member, else of an OSM member.
C9_OperatorByPriority ==
    [][\A m \in Mergers :
          (Stepped(m) /\ Len(stations') > Len(stations)) =>
             LET record == stations'[Len(stations')]
                 rows == rows_of(stations, MemberStations(stations, record))
             IN (Len(rows) >= 2 /\ DistinctOperators(rows, mergers[m].gov_source))
                   => record.operator \in ExpectedOperators(rows, mergers[m].gov_source)]_vars

\* C9 witness: the German cluster of a BNA, an OCM and an OSM station carries the
\* BNA operator, and the French cluster of an OCM and an OSM station the OCM one.
C9_Witness ==
    /\ \E j \in MergedRecords(stations) :
          /\ MemberSet(stations[j]) = {<<"s1">>, <<"s2">>, <<"s3">>}
          /\ stations[j].operator = Some("EnBW")
    /\ \E j \in MergedRecords(stations) :
          /\ MemberSet(stations[j]) = {<<"s4">>, <<"s5">>}
          /\ stations[j].operator = Some("Total")

\* alphabetical rank of the source names
SourceRank(name) ==
    CASE name = <<"AT_ECONTROL">> -> 1
      [] name = <<"BNA">> -> 2
      [] name = <<"FRGOV">> -> 3
      [] name = <<"GBGOV">> -> 4
      [] name = <<"OCM">> -> 5
      [] name = <<"OSM">> -> 6

RECURSIVE Sorted(_)
\* the names of a set in alphabetical order
Sorted(names) ==
    IF names = {} THEN <<>>
    ELSE LET first == CHOOSE n \in names : \A o \in names : SourceRank(n) <= SourceRank(o)
         IN <<first>> \o Sorted(names \ {first})

\* C10: the data_source of a merged record of several members is the sorted,
\* duplicate-free, comma-joined list of its members' source names, whatever the
\* order of discovery.
C10_SortedUniqueDataSource ==
    \A j \in MergedRecords(stations) :
        Len(MemberList(stations[j])) >= 2 =>
            stations[j].data_source =
                join(",", Sorted({stations[i].data_source :
                                    i \in {i \in Originals(stations) :
                                              stations[i].source_id \in MemberSet(stations[j])}}))

\* the stations a step marks is_duplicate, and the seed the step is about
NewlyMarked ==
    {i \in 1..Len(stations) :
        stations[i].merge_status # IS_DUPLICATE /\ stations'[i].merge_status = IS_DUPLICATE}

Seed(m) == mergers[m].gdf[mergers[m].idx].station_id

\* C11: when a step marks several stations, the source_id of the record it inserts
\* is MERGED_ followed by the comma-joined source identifiers of exactly the marked
\* stations, each once, the duplicates first and the seed last (discovery order).
C11_SourceIdListsCluster ==
    [][\A m \in Mergers :
          (Stepped(m) /\ Cardinality(NewlyMarked) >= 2) =>
             /\ Len(stations') = Len(stations) + 1
             /\ \E order \in Arrangements(NewlyMarked) :
                   /\ Len(order) = Cardinality(NewlyMarked)
                   /\ order[Len(order)] = Seed(m)
                   /\ stations'[Len(stations')].source_id =
                         <<"MERGED_">> \o
                         join(",", [k \in 1..Len(order) |-> stations[order[k]].source_id])]_vars

\* C11 witness: seed s1 was merged with s3 and s2, found in that order; the three
\* are marked and the record reads MERGED_s3,s2,s1.
C11_Witness ==
    /\ \E j \in MergedRecords(stations) :
          stations[j].source_id = <<"MERGED_", "s3", ",", "s2", ",", "s1">>
    /\ \A i \in {1, 2, 3} : stations[i].merge_status = IS_DUPLICATE

\* the seed of merger m may get a cluster of several members none of which has a
\* source of the geometry priority list: the point resolves to no value
PointMayBeUnresolved(m) ==
    \E found \in find_duplicates(stations, mergers[m], Seed(m),
                                 mergers[m].gdf[mergers[m].idx].point, radius_m) :
        /\ found.duplicates # <<>>
        /\ merged_point(mergers[m],
                        rows_of(stations, found.duplicates \o found.current_station_full)) = Null

\* C12: a step whose cluster has no resolvable point is confined to that cluster -
\* it commits no merge_status change, and the run goes on with the next seed (or
\* returns after the last one) instead of aborting.
C12_PointFailureConfined ==
    [][\A m \in Mergers :
          (Stepped(m) /\ PointMayBeUnresolved(m)) =>
             /\ (stations' = stations \/ CommittedCluster(stations, stations'))
             /\ \/ /\ mergers'[m].pc = "running"
                   /\ mergers'[m].idx = mergers[m].idx + 1
                \/ /\ mergers'[m].pc = "done"
                   /\ mergers[m].idx = Len(mergers[m].gdf)]_vars

\* distance in metres between two points of the line
Distance(p, q) == IF p >= q THEN p - q ELSE q - p

\* merger m is inside the loop of run(), at a seed
AtSeed(m) == mergers[m].pc = "running" /\ mergers[m].idx <= Len(mergers[m].gdf)

SeedPoint(m) == mergers[m].gdf[mergers[m].idx].point

\* C13: for every seed, no station farther than radius_m from it is handed to the
\* matcher as a candidate, returned by find_duplicates as a duplicate, or part of
\* the seed's cluster.
C13_NoDuplicateBeyondRadius ==
    \A m \in Mergers :
        AtSeed(m) =>
            /\ \A i \in nearby_stations(stations, mergers[m], SeedPoint(m), radius_m) :
                  Distance(stations[i].point, SeedPoint(m)) <= radius_m
            /\ \A found \in find_duplicates(stations, mergers[m], Seed(m), SeedPoint(m), radius_m) :
                  \A k \in 1..Len(found.duplicates \o found.current_station_full) :
                     Distance(stations[(found.duplicates \o found.current_station_full)[k]].point,
                              SeedPoint(m)) <= radius_m

\* C13 witness: a seed with a possible duplicate, while an unabsorbed station of the
\* same country lies farther away than the radius.
C13_Witness ==
    \E m \in Mergers :
        /\ AtSeed(m)
        /\ \E found \in find_duplicates(stations, mergers[m], Seed(m), SeedPoint(m), radius_m) :
              found.duplicates # <<>>
        /\ \E i \in Originals(stations) :
              /\ stations[i].country_code = mergers[m].country_code
              /\ stations[i].merge_status = Null
              /\ Distance(stations[i].point, SeedPoint(m)) > radius_m

\* the seed of a merged record is the last station of its list, the others are
\* the duplicates absorbed with it
SeedOf(db, row) == MemberStations(db, row)[Len(MemberList(row))]
DuplicatesOf(db, row) ==
    {MemberStations(db, row)[k] : k \in 1..(Len(MemberList(row)) - 1)}

\* C14: a run walks its seed list in strictly ascending station id, one position at
\* a time, and a station absorbed as the duplicate of another seed is never the
\* seed of a cluster of its own.
C14_AscendingSeeds ==
    /\ \A m \in Mergers :
          mergers[m].pc = "running" =>
             /\ mergers[m].idx \in 1..Len(mergers[m].gdf)
             /\ \A k \in 1..(Len(mergers[m].gdf) - 1) :
                   mergers[m].gdf[k].station_id < mergers[m].gdf[k + 1].station_id
    /\ \A j, o \in MergedRecords(stations) :
          SeedOf(stations, stations[o]) \notin DuplicatesOf(stations, stations[j])

\* C14 witness: a run stands at a seed that an earlier seed with a smaller id has
\* absorbed as its duplicate.
C14_Witness ==
    \E m \in Mergers :
        /\ AtSeed(m)
        /\ mergers[m].idx >= 2
        /\ stations[Seed(m)].merge_status = IS_DUPLICATE
        /\ \E j \in MergedRecords(stations) :
              /\ Seed(m) \in DuplicatesOf(stations, stations[j])
              /\ SeedOf(stations, stations[j]) < Seed(m)
              /\ \E k \in 1..(mergers[m].idx - 1) :
                    mergers[m].gdf[k].station_id = SeedOf(stations, stations[j])

\* merger m went on to the next seed, or returned after the last one
WentOn(m) ==
    \/ /\ mergers'[m].pc = "running"
       /\ mergers'[m].idx = mergers[m].idx + 1
       /\ mergers'[m].gdf = mergers[m].gdf
    \/ /\ mergers'[m].pc = "done"
       /\ mergers[m].idx = Len(mergers[m].gdf)

\* C15: the step of a seed that is already is_duplicate inserts no record and
\* changes no merge_status, whether or not unabsorbed stations lie around it.
C15_AbsorbedSeedSkipped ==
    [][\A m \in Mergers :
          (Stepped(m) /\ stations[Seed(m)].merge_status = IS_DUPLICATE) =>
             /\ stations' = stations
             /\ WentOn(m)]_vars

\* C15 witness: the run has just passed a seed that was absorbed as a duplicate of
\* an earlier seed, while an unabsorbed station of the country still lies within
\* the radius of that seed, and the seed is in no other record.
C15_Witness ==
    \E m \in Mergers :
        /\ mergers[m].pc = "running"
        /\ mergers[m].idx >= 3
        /\ LET passed == mergers[m].gdf[mergers[m].idx - 1]
           IN /\ stations[passed.station_id].merge_status = IS_DUPLICATE
              /\ \E j \in MergedRecords(stations) :
                    passed.station_id \in DuplicatesOf(stations, stations[j])
              /\ Cardinality(RecordsListing(stations, passed.station_id)) = 1
              /\ nearby_stations(stations, mergers[m], passed.point, radius_m) # {}

\* C16: a run visits its seeds one position at a time and returns after the last
\* one; when it returns without a failed commit, every seed that is a station of
\* the run's country is is_duplicate.
C16_CleanRunAbsorbsSeeds ==
    [][\A m \in Mergers :
          Stepped(m) =>
             /\ mergers'[m].pc = "running" =>
                   /\ mergers'[m].idx = mergers[m].idx + 1
                   /\ mergers'[m].gdf = mergers[m].gdf
             /\ mergers'[m].pc = "done" =>
                   /\ mergers[m].idx = Len(mergers[m].gdf)
                   /\ ~mergers'[m].error_logged =>
                         \A k \in 1..Len(mergers[m].gdf) :
                            stations[mergers[m].gdf[k].station_id].country_code
                                  = mergers[m].country_code
                               => stations'[mergers[m].gdf[k].station_id].merge_status
                                     = IS_DUPLICATE]_vars

\* C16 witness: the first run, over the three German stations, has returned
\* without a failed commit, and all three are is_duplicate.
C16_Witness ==
    /\ constructed = 1
    /\ failures = 0
    /\ \E m \in Mergers :
          /\ mergers[m].pc = "done"
          /\ mergers[m].country_code = "DE"
          /\ ~mergers[m].is_test
          /\ ~mergers[m].error_logged
    /\ Len(stations) >= 3
    /\ \A i \in {1, 2, 3} :
          stations[i].country_code = "DE" /\ stations[i].merge_status = IS_DUPLICATE

\* C17: a step that marks the seed alone inserts one merged record whose
\* source_id is MERGED_ followed by the seed's source identifier and whose point,
\* operator and data_source are the seed's own; and an unabsorbed seed that its own
\* radius query returns is marked by its step unless the commit fails or the
\* merge raises.
C17_SeedAloneCopied ==
    [][\A m \in Mergers :
          Stepped(m) =>
             /\ NewlyMarked = {Seed(m)} =>
                   /\ Len(stations') = Len(stations) + 1
                   /\ LET record == stations'[Len(stations')]
                          seed == stations[Seed(m)]
                      IN /\ record.is_merged
                         /\ record.source_id = <<"MERGED_">> \o seed.source_id
                         /\ record.point = seed.point
                         /\ record.operator = seed.operator
                         /\ record.data_source = seed.data_source
             /\ ( /\ stations[Seed(m)].merge_status # IS_DUPLICATE
                  /\ Seed(m) \in nearby_stations(stations, mergers[m],
                                                 mergers[m].gdf[mergers[m].idx].point, radius_m)
                  /\ failures' = failures
                  /\ mergers'[m].pc # "aborted" )
                => Seed(m) \in NewlyMarked]_vars

\* C17 witness: the German OSM station was merged alone, its record carries its
\* point, operator and data_source, and no other record lists it.
C17_Witness ==
    /\ Len(stations) >= 3
    /\ stations[3].source_id = <<"s3">>
    /\ stations[3].merge_status = IS_DUPLICATE
    /\ \E j \in MergedRecords(stations) :
          /\ stations[j].source_id = <<"MERGED_", "s3">>
          /\ stations[j].point = 80
          /\ stations[j].operator = Some("Shell")
          /\ stations[j].data_source = <<"OSM">>
    /\ Cardinality(RecordsListing(stations, 3)) = 1

\* the points of the members of a cluster that come from one source
PointsOf(rows, source) ==
    {rows[k].point : k \in {k \in 1..Len(rows) : rows[k].data_source = <<source>>}}

ExpectedPoints(rows, gov_source) ==
    IF PointsOf(rows, "OSM") # {} THEN PointsOf(rows, "OSM")
    ELSE IF PointsOf(rows, "OCM") # {} THEN PointsOf(rows, "OCM")
    ELSE PointsOf(rows, gov_source)

\* C18: the point of the merged record of a multi-member cluster is the point of
\* an OSM member when the cluster has one, otherwise of an OCM member, otherwise
\* of a member from the government source.
C18_PointByPriority ==
    [][\A m \in Mergers :
          (Stepped(m) /\ Len(stations') > Len(stations)) =>
             LET record == stations'[Len(stations')]
                 rows == rows_of(stations, MemberStations(stations, record))
             IN Len(rows) >= 2
                   => record.point \in ExpectedPoints(rows, mergers[m].gov_source)]_vars

\* C18 witness: the German cluster of a BNA, an OCM and an OSM station lies at the
\* OSM point while it carries the BNA operator.
C18_Witness ==
    \E j \in MergedRecords(stations) :
       /\ MemberSet(stations[j]) = {<<"s1">>, <<"s2">>, <<"s3">>}
       /\ stations[j].point = 80
       /\ stations[j].operator = Some("EnBW")

\* C19: a multi-member cluster none of whose members has an operator is
\* committed with the operator unset - each step that forms one inserts its record
\* with no operator and marks its members is_duplicate.
C19_OperatorLeftUnset ==
    [][\A m \in Mergers :
          (Stepped(m) /\ Cardinality(NewlyMarked) >= 2
             /\ \A i \in NewlyMarked : stations[i].operator = Null) =>
                /\ CommittedCluster(stations, stations')
                /\ stations'[Len(stations')].operator = Null
                /\ MemberSet(stations'[Len(stations')])
                      = {stations[i].source_id : i \in NewlyMarked}]_vars

\* C19 witness: the two German BNA stations without an operator were merged into
\* one record, which has no operator.
C19_Witness ==
    \E j \in MergedRecords(stations) :
       /\ MemberSet(stations[j]) = {<<"t1">>, <<"t2">>}
       /\ stations[j].operator = Null
       /\ \A i \in {1, 2} : stations[i].merge_status = IS_DUPLICATE

\* C20: merged records stay outside the merge domain - none is a seed of a run,
\* none is a candidate of a radius query or part of a result of find_duplicates,
\* none is is_duplicate, and no merged record lists the source_id of a merged
\* record.
C20_MergedOutsideDomain ==
    /\ \A j \in MergedRecords(stations) : stations[j].merge_status # IS_DUPLICATE
    /\ \A j, k \in MergedRecords(stations) :
          /\ stations[k].source_id \notin MemberSet(stations[j])
          /\ \A member \in MemberSet(stations[j]) : Head(member) # "MERGED_"
    /\ \A m \in Mergers :
          mergers[m].pc = "running" =>
             \A k \in 1..Len(mergers[m].gdf) :
                mergers[m].gdf[k].station_id \notin MergedRecords(stations)
    /\ \A m \in Mergers :
          AtSeed(m) =>
             /\ nearby_stations(stations, mergers[m], SeedPoint(m), radius_m)
                   \cap MergedRecords(stations) = {}
             /\ \A found \in find_duplicates(stations, mergers[m], Seed(m),
                                             SeedPoint(m), radius_m) :
                   \A k \in 1..Len(found.duplicates \o found.current_station_full) :
                      (found.duplicates \o found.current_station_full)[k]
                         \notin MergedRecords(stations)

\* C20 witness: a second run is at its first seed, which is unabsorbed, and a
\* merged record of the run's country lies within radius_m of that seed.
C20_Witness ==
    /\ constructed = 2
    /\ \E m \in Mergers :
          /\ AtSeed(m)
          /\ mergers[m].idx = 1
          /\ stations[Seed(m)].merge_status # IS_DUPLICATE
          /\ \E j \in MergedRecords(stations) :
                /\ stations[j].country_code = mergers[m].country_code
                /\ stations[j].country_code = stations[Seed(m)].country_code
                /\ ST_Dwithin(stations[j].point, SeedPoint(m), radius_m)
                /\ Len(MemberList(stations[j])) >= 2

Spec == Init /\ [][Next]_vars

====
